---- MODULE Spec2Model ----
(***************************************************************************)
(* psrecord: main() attaches to a process id or spawns a command, then     *)
(* monitor() samples CPU, memory and I/O of the process (optionally summed *)
(* over its descendants) in a loop, writes a log row per sample, keeps the *)
(* samples for a chart, and on loop exit closes the log and renders the    *)
(* chart.  One program position (pc) per statement group of main() and     *)
(* monitor(); KeyboardInterrupt may be raised between any two of them.     *)
(*                                                                         *)
(* Numbers.  Every float of the program (seconds, percent, MB) is an       *)
(* integer count of 1/10000 units, so that the three-decimal formatting of *)
(* a log row is a real rounding.  Byte counts are plain integers.          *)
(***************************************************************************)
EXTENDS Integers, Sequences, FiniteSets, TLC

VARIABLES
    \* command line (main) and the arguments of monitor()
    is_command, logfile, plot, duration, interval,
    include_children, include_io, max_cpu_scale,
    \* the environment: clock, clock steps, process tree, per-process figures,
    \* and the failures the last tree walk and child queries met (walked is the
    \* list all_children(pr) returned to the loop of line 204)
    now, ticks, fault_kinds, walk_faults, tree, procs, children_fail, fault, walked,
    \* main() and monitor() locals
    pc, sprocess, start_time, current_time, pr_status,
    current_cpu, current_mem_real, current_mem_virtual,
    current_io_read, current_io_write,
    f, rows, log,
    \* effects
    killed, closes, finished_lines, chart, raised,
    \* history: iterations started, and why the loop was left
    iter, exit_reason

vars == << is_command, logfile, plot, duration, interval,
           include_children, include_io, max_cpu_scale,
           now, ticks, fault_kinds, walk_faults, tree, procs, children_fail, fault, walked,
           pc, sprocess, start_time, current_time, pr_status,
           current_cpu, current_mem_real, current_mem_virtual,
           current_io_read, current_io_write,
           f, rows, log,
           killed, closes, finished_lines, chart, raised,
           iter, exit_reason >>

cfgVars == << is_command, logfile, plot, duration, interval,
              include_children, include_io, max_cpu_scale >>
envVars == << ticks, fault_kinds, walk_faults, tree, procs >>

(***************************************************************************)
(* Bounds of the model.                                                    *)
(***************************************************************************)
\* iterations of the sampling loop a run may start
MaxIter == 3
\* largest configured duration, in milliseconds
MaxDur == 2
\* most descendants of the monitored process
MaxDesc == 3

(***************************************************************************)
(* Units and values.                                                       *)
(***************************************************************************)
\* None where a number may stand (duration, interval, unassigned locals)
None == -1
\* None where a name may stand (sprocess, and locals and effects not yet set)
Unset == "None"
\* 1.0 as a count of 1/10000
One == 10000
\* one millisecond: the last digit a "12.3f" row keeps
Milli == 10
\* a clock step below the log's resolution
SubMilli == 3

\* the monitored process
Root == 0
Desc(n) == 1..n

STATUS_ZOMBIE == "zombie"
STATUS_DEAD == "dead"
STATUS_RUNNING == "running"

\* x / 1024. ** 2 with x in bytes, in 1/10000 MB (exact for multiples of 64 KiB)
ToMB(bytes) == (bytes * 625) \div 65536

\* "{:12.3f}": round to the nearest 1/1000, halves to the even digit
Fmt3(x) ==
    LET q == x \div Milli
        r == x % Milli
    IN  IF r < 5 THEN q * Milli
        ELSE IF r > 5 THEN (q + 1) * Milli
        ELSE IF q % 2 = 0 THEN q * Milli ELSE (q + 1) * Milli

(***************************************************************************)
(* The environment: process trees and what each process reports.           *)
(***************************************************************************)
RECURSIVE SortedSeq(_)
\* the members of a set of pids in ascending order
SortedSeq(S) ==
    IF S = {} THEN << >>
    ELSE LET m == CHOOSE x \in S : \A y \in S : x <= y
         IN  << m >> \o SortedSeq(S \ {m})

\* a tree on Root and n descendants: every descendant's parent has a smaller pid;
\* the tree maps each process to its direct children, as children() lists them
TreeOf(n, par) == [p \in 0..n |-> SortedSeq({c \in Desc(n) : par[c] = p})]
Trees(n) == {TreeOf(n, par) : par \in {q \in [Desc(n) -> 0..n] : \A c \in Desc(n) : q[c] < c}}
AllTrees == UNION {Trees(n) : n \in 0..MaxDesc}
NDesc(tr) == Cardinality(DOMAIN tr) - 1

\* root at 10 %, every descendant at 15 %, 1 MiB resident, 2 MiB virtual
ExampleProcs == [p \in 0..MaxDesc |->
    [cpu |-> IF p = Root THEN 10 * One ELSE 15 * One,
     rss |-> 1048576, vms |-> 2097152,
     read_bytes |-> 65536, write_bytes |-> 131072]]
\* every process with figures of its own, CPU with digits below 1/1000
DistinctProcs == [p \in 0..MaxDesc |->
    [cpu |-> (2 ^ p) * One + 3456,
     rss |-> 65536 * (2 ^ p), vms |-> 65536 * (2 ^ p) + 1048576,
     read_bytes |-> 65536 * (p + 1), write_bytes |-> 65536 * (p + 3)]]

NoFault(tr) == [c \in Desc(NDesc(tr)) |-> "ok"]
\* per descendant: both queries answer ("ok"), cpu_percent raises ("cpu"), or
\* memory_info raises ("mem"); kinds are the outcomes the environment of a run has
Faults(tr, kinds) == [Desc(NDesc(tr)) -> kinds]
\* the sets of processes whose children() raises, at most k of them
WalkFaults(tr, k) == {S \in SUBSET (DOMAIN tr) : Cardinality(S) <= k}

(***************************************************************************)
(* Helpers of the program.                                                 *)
(***************************************************************************)
\* process.cpu_percent(), or get_cpu_percent() of an old psutil: the same figure
get_percent(process) == process.cpu
\* process.memory_info(), or get_memory_info() of an old psutil
get_memory(process) == [rss |-> process.rss, vms |-> process.vms]

RECURSIVE all_children(_, _, _)
RECURSIVE walk_children(_, _, _)
\* a slip: a child appended after its descendants
walk_children_postorder(children, tr, cf) ==
    IF children = << >> THEN << >>
    ELSE all_children(Head(children), tr, cf) \o << Head(children) >>
             \o walk_children(Tail(children), tr, cf)
\* for child in children: processes.append(child); processes += all_children(child)
walk_children(children, tr, cf) ==
    IF children = << >> THEN << >>
    ELSE << Head(children) >> \o all_children(Head(children), tr, cf)
             \o walk_children(Tail(children), tr, cf)
\* a slip: the direct children only, without the recursion
all_children_direct(pr, tr, cf) == IF pr \in cf THEN << >> ELSE tr[pr]
\* children() (get_children() of an old psutil) of a process in cf raises and
\* leaves children = []
all_children(pr, tr, cf) ==
    walk_children(IF pr \in cf THEN << >> ELSE tr[pr], tr, cf)

RECURSIVE add_children(_, _, _, _)
\* the loop over all_children(pr): acc holds current_cpu, current_mem_real and
\* current_mem_virtual; an exception in the try block skips to the next child
add_children(ps, tbl, fl, acc) ==
    IF ps = << >> THEN acc
    ELSE LET child == Head(ps)
             rest  == Tail(ps)
         IN  IF fl[child] = "cpu" THEN add_children(rest, tbl, fl, acc)
             ELSE LET withCpu == [acc EXCEPT !.cpu = @ + get_percent(tbl[child])]
                  IN  IF fl[child] = "mem" THEN add_children(rest, tbl, fl, withCpu)
                      ELSE add_children(rest, tbl, fl,
                             [withCpu EXCEPT
                                !.mem_real = @ + ToMB(get_memory(tbl[child]).rss),
                                !.mem_virtual = @ + ToMB(get_memory(tbl[child]).vms)])

Header == "# Elapsed time"
\* "{0:12.3f} {1:12.3f} {2:12.3f} {3:12.3f}\n"
LogRow(t, cpu, real, virtual) ==
    [t |-> Fmt3(t), cpu |-> Fmt3(cpu), mem_real |-> Fmt3(real), mem_virtual |-> Fmt3(virtual)]

EmptyLog == [times |-> << >>, cpu |-> << >>, mem_real |-> << >>, mem_virtual |-> << >>,
             io |-> << >>, io_read |-> << >>, io_write |-> << >>]

\* ax.plot(x, y) raises ValueError when x and y differ in length
PlotRaises(x, y) == Len(x) # Len(y)
\* max(s) raises ValueError on an empty sequence
MaxRaises(s) == s = << >>

\* whether the chart block of monitor() raises before fig.savefig
RenderRaises(lg, maxScale, withIo) ==
    \/ PlotRaises(lg.times, lg.cpu)
    \/ (~maxScale /\ MaxRaises(lg.cpu))
    \/ IF withIo
       THEN \/ PlotRaises(lg.times, lg.mem_real)
            \/ PlotRaises(lg.times, lg.io_read)
            \/ PlotRaises(lg.times, lg.io_write)
            \/ MaxRaises(lg.mem_real) \/ MaxRaises(lg.io_read) \/ MaxRaises(lg.io_write)
       ELSE \/ PlotRaises(lg.times, lg.mem_real)
            \/ MaxRaises(lg.mem_real)

(***************************************************************************)
(* Initial states: the command line and the environment of one run.        *)
(***************************************************************************)
Durations == {None} \cup {k * Milli : k \in 0..MaxDur}
Intervals == {None, Milli}
\* time.time() when main() starts
Epoch == 50000

InitRun ==
    /\ now = Epoch
    /\ children_fail = {}
    /\ fault = NoFault(tree)
    /\ walked = << >>
    /\ pc = "attach"
    /\ sprocess = Unset
    /\ start_time = None
    /\ current_time = None
    /\ pr_status = Unset
    /\ current_cpu = None
    /\ current_mem_real = None
    /\ current_mem_virtual = None
    /\ current_io_read = None
    /\ current_io_write = None
    /\ f = Unset
    /\ rows = << >>
    /\ log = EmptyLog
    /\ killed = 0
    /\ closes = 0
    /\ finished_lines = 0
    /\ chart = << >>
    /\ raised = Unset
    /\ iter = 0
    /\ exit_reason = Unset

\* every command line; a clock that may stand still, step below a millisecond or
\* step by one; a process with no or one child
Init ==
    /\ is_command \in BOOLEAN
    /\ logfile \in BOOLEAN
    /\ plot \in BOOLEAN
    /\ duration \in Durations
    /\ interval \in Intervals
    /\ include_children \in BOOLEAN
    /\ include_io \in BOOLEAN
    /\ max_cpu_scale \in BOOLEAN
    /\ ticks = {0, SubMilli, Milli}
    /\ fault_kinds = {"ok"}
    /\ walk_faults = 0
    /\ tree \in Trees(1)
    /\ procs = DistinctProcs
    /\ InitRun

(***************************************************************************)
(* main(), lines 103-120, and monitor(), lines 123-285.                    *)
(***************************************************************************)
\* an exception leaves main(): nothing after the raising statement runs
Raise(e) ==
    /\ raised' = e
    /\ pc' = "raised"

\* break: the statement after the try block is next
Break(why) ==
    /\ exit_reason' = why
    /\ pc' = "close"

\* try: pid = int(args.process_id_or_command) ... except: subprocess.Popen(...)
Attach ==
    /\ pc = "attach"
    /\ IF is_command
       THEN \E popen \in {"ok", "OSError"} :
              IF popen = "ok"
              THEN /\ sprocess' = "Popen"
                   /\ pc' = "monitor"
                   /\ UNCHANGED raised
              ELSE /\ Raise(popen)
                   /\ UNCHANGED sprocess
       ELSE /\ sprocess' = Unset
            /\ pc' = "monitor"
            /\ UNCHANGED raised
    /\ UNCHANGED << cfgVars, envVars, now, children_fail, fault, walked, start_time,
                    current_time, pr_status, current_cpu, current_mem_real,
                    current_mem_virtual, current_io_read, current_io_write,
                    f, rows, log, killed, closes, finished_lines, chart,
                    iter, exit_reason >>

\* pr = psutil.Process(pid); start_time = time.time().  A pid given on the command
\* line may name no process; a child just spawned and not yet waited for exists
MonitorEnter ==
    /\ pc = "monitor"
    /\ \E process \in IF sprocess = Unset THEN {"ok", "NoSuchProcess"} ELSE {"ok"} :
         IF process = "ok"
         THEN /\ start_time' = now
              /\ pc' = "open"
              /\ UNCHANGED raised
         ELSE /\ Raise(process)
              /\ UNCHANGED start_time
    /\ UNCHANGED << cfgVars, envVars, now, children_fail, fault, walked, sprocess,
                    current_time, pr_status, current_cpu, current_mem_real,
                    current_mem_virtual, current_io_read, current_io_write,
                    f, rows, log, killed, closes, finished_lines, chart,
                    iter, exit_reason >>

\* if logfile: f = open(logfile, 'w'); f.write(header); then log = {...}
OpenLog ==
    /\ pc = "open"
    /\ IF logfile
       THEN \E open \in {"ok", "IOError"} :
              IF open = "ok"
              THEN /\ f' = "open"
                   /\ rows' = << Header >>
                   /\ log' = EmptyLog
                   /\ pc' = "loop"
                   /\ UNCHANGED raised
              ELSE /\ Raise(open)
                   /\ UNCHANGED << f, rows, log >>
       ELSE /\ log' = EmptyLog
            /\ pc' = "loop"
            /\ UNCHANGED << f, rows, raised >>
    /\ UNCHANGED << cfgVars, envVars, now, children_fail, fault, walked, sprocess,
                    start_time, current_time, pr_status, current_cpu,
                    current_mem_real, current_mem_virtual, current_io_read,
                    current_io_write, killed, closes, finished_lines, chart,
                    iter, exit_reason >>

\* a slip: the duration tested before the status
CheckOrderDurationFirst == << "duration", "status", "metrics" >>
\* the order of the loop's tests: status (161-172), duration (174-176), the root's
\* CPU and memory (178-183)
CheckOrder == << "status", "duration", "metrics" >>
\* the statement after test c has let the iteration go on
AfterCheck(c) ==
    LET i == CHOOSE j \in 1..Len(CheckOrder) : CheckOrder[j] = c
    IN  IF i < Len(CheckOrder) THEN CheckOrder[i + 1] ELSE "io"

\* while True: current_time = time.time()
LoopTop ==
    /\ pc = "loop"
    /\ iter < MaxIter
    /\ \E d \in ticks :
         /\ now' = now + d
         /\ current_time' = now + d
    /\ iter' = iter + 1
    /\ pc' = CheckOrder[1]
    /\ UNCHANGED << cfgVars, envVars, children_fail, fault, walked, sprocess, start_time,
                    pr_status, current_cpu, current_mem_real, current_mem_virtual,
                    current_io_read, current_io_write, f, rows, log, killed,
                    closes, finished_lines, chart, raised, exit_reason >>

\* a slip: only STATUS_DEAD ends the loop
ExitStatusesDeadOnly == {STATUS_DEAD}
\* pr_status in [psutil.STATUS_ZOMBIE, psutil.STATUS_DEAD]
ExitStatuses == {STATUS_ZOMBIE, STATUS_DEAD}

\* what pr.status() does: it returns a status (STATUS_RUNNING stands for every
\* status that is neither zombie nor dead) or raises NoSuchProcess
StatusOutcomes == {STATUS_RUNNING, STATUS_ZOMBIE, STATUS_DEAD, "NoSuchProcess"}

\* pr_status = pr.status(); zombie or dead prints "Process finished" and breaks
CheckStatus ==
    /\ pc = "status"
    /\ \E r \in StatusOutcomes :
         IF r = "NoSuchProcess"
         THEN /\ Break("gone")
              /\ UNCHANGED << pr_status, finished_lines >>
         ELSE /\ pr_status' = r
              /\ IF r \in ExitStatuses
                 THEN /\ finished_lines' = finished_lines + 1
                      /\ Break("status")
                 ELSE /\ pc' = AfterCheck("status")
                      /\ UNCHANGED << finished_lines, exit_reason >>
    /\ UNCHANGED << cfgVars, envVars, now, children_fail, fault, walked, sprocess,
                    start_time, current_time, current_cpu, current_mem_real,
                    current_mem_virtual, current_io_read, current_io_write,
                    f, rows, log, killed, closes, chart, raised, iter >>

\* a slip: the operands of the subtraction swapped
DurationExceededSwapped == duration # None /\ start_time - current_time > duration
\* duration is not None and current_time - start_time > duration
DurationExceeded == duration # None /\ current_time - start_time > duration

\* if duration is not None and current_time - start_time > duration: break
CheckDuration ==
    /\ pc = "duration"
    /\ IF DurationExceeded
       THEN Break("duration")
       ELSE /\ pc' = AfterCheck("duration")
            /\ UNCHANGED exit_reason
    /\ UNCHANGED << cfgVars, envVars, now, children_fail, fault, walked, sprocess,
                    start_time, current_time, pr_status, current_cpu,
                    current_mem_real, current_mem_virtual, current_io_read,
                    current_io_write, f, rows, log, killed, closes,
                    finished_lines, chart, raised, iter >>

\* try: current_cpu = get_percent(pr); current_mem = get_memory(pr)
\* except Exception: break
RootMetrics ==
    /\ pc = "metrics"
    /\ \E q \in {"ok", "cpu", "mem"} :
         CASE q = "cpu" ->
                /\ Break("query")
                /\ UNCHANGED << current_cpu, current_mem_real, current_mem_virtual >>
           [] q = "mem" ->
                /\ current_cpu' = get_percent(procs[Root])
                /\ Break("query")
                /\ UNCHANGED << current_mem_real, current_mem_virtual >>
           [] OTHER ->
                /\ current_cpu' = get_percent(procs[Root])
                /\ current_mem_real' = ToMB(get_memory(procs[Root]).rss)
                /\ current_mem_virtual' = ToMB(get_memory(procs[Root]).vms)
                /\ pc' = AfterCheck("metrics")
                /\ UNCHANGED exit_reason
    /\ UNCHANGED << cfgVars, envVars, now, children_fail, fault, walked, sprocess,
                    start_time, current_time, pr_status, current_io_read,
                    current_io_write, f, rows, log, killed, closes,
                    finished_lines, chart, raised, iter >>

\* io_counters = pr.io_counters(), outside any try block; the call raises a
\* psutil.Error when the process has gone or turned zombie since the status check
IoCounters ==
    /\ pc = "io"
    /\ \E q \in {"ok", "psutil.Error"} :
         IF q = "ok"
         THEN /\ current_io_read' = ToMB(procs[Root].read_bytes)
              /\ current_io_write' = ToMB(procs[Root].write_bytes)
              /\ pc' = "children"
              /\ UNCHANGED << raised, exit_reason >>
         ELSE /\ Raise(q)
              /\ exit_reason' = "error"
              /\ UNCHANGED << current_io_read, current_io_write >>
    /\ UNCHANGED << cfgVars, envVars, now, children_fail, fault, walked, sprocess,
                    start_time, current_time, pr_status, current_cpu,
                    current_mem_real, current_mem_virtual, f, rows, log,
                    killed, closes, finished_lines, chart, iter >>

\* a slip: the descendants' I/O counters added to the root's
ChildrenSummingIo ==
    /\ pc = "children"
    /\ IF include_children
       THEN \E cf \in WalkFaults(tree, walk_faults), fl \in Faults(tree, fault_kinds) :
              LET processes == all_children(Root, tree, cf)
                  acc == add_children(processes, procs, fl,
                             [cpu |-> current_cpu, mem_real |-> current_mem_real,
                              mem_virtual |-> current_mem_virtual])
                  RECURSIVE io(_, _)
                  io(ps, k) == IF ps = << >> THEN 0
                               ELSE ToMB(procs[Head(ps)][k]) + io(Tail(ps), k)
              IN  /\ children_fail' = cf
                  /\ walked' = processes
                  /\ fault' = fl
                  /\ current_cpu' = acc.cpu
                  /\ current_mem_real' = acc.mem_real
                  /\ current_mem_virtual' = acc.mem_virtual
                  /\ current_io_read' = current_io_read + io(processes, "read_bytes")
                  /\ current_io_write' = current_io_write + io(processes, "write_bytes")
       ELSE UNCHANGED << children_fail, fault, walked, current_cpu, current_mem_real,
                         current_mem_virtual, current_io_read, current_io_write >>
    /\ pc' = "write"
    /\ UNCHANGED << cfgVars, envVars, now, sprocess, start_time, current_time,
                    pr_status, f, rows, log, killed, closes, finished_lines,
                    chart, raised, iter, exit_reason >>

\* if include_children: for child in all_children(pr): ...
Children ==
    /\ pc = "children"
    /\ IF include_children
       THEN \E cf \in WalkFaults(tree, walk_faults), fl \in Faults(tree, fault_kinds) :
              LET processes == all_children(Root, tree, cf)
                  acc == add_children(processes, procs, fl,
                             [cpu |-> current_cpu, mem_real |-> current_mem_real,
                              mem_virtual |-> current_mem_virtual])
              IN  /\ children_fail' = cf
                  /\ walked' = processes
                  /\ fault' = fl
                  /\ current_cpu' = acc.cpu
                  /\ current_mem_real' = acc.mem_real
                  /\ current_mem_virtual' = acc.mem_virtual
       ELSE UNCHANGED << children_fail, fault, walked, current_cpu, current_mem_real,
                         current_mem_virtual >>
    /\ pc' = "write"
    /\ UNCHANGED << cfgVars, envVars, now, sprocess, start_time, current_time,
                    pr_status, current_io_read, current_io_write, f, rows, log,
                    killed, closes, finished_lines, chart, raised, iter,
                    exit_reason >>

\* a slip: the row stays in the buffer and never reaches the file
WriteRowUnflushed(file, row) == file
\* f.write(row); f.flush(): the file's lines after the call
WriteRow(file, row) == Append(file, row)

\* if logfile: f.write(row); f.flush()
LogWrite ==
    /\ pc = "write"
    /\ IF logfile
       THEN rows' = WriteRow(rows, LogRow(current_time - start_time, current_cpu,
                                          current_mem_real, current_mem_virtual))
       ELSE UNCHANGED rows
    /\ pc' = "sleep"
    /\ UNCHANGED << cfgVars, envVars, now, children_fail, fault, walked, sprocess,
                    start_time, current_time, pr_status, current_cpu,
                    current_mem_real, current_mem_virtual, current_io_read,
                    current_io_write, f, log, killed, closes, finished_lines,
                    chart, raised, iter, exit_reason >>

AppendOrder == << "times", "cpu", "mem_real", "mem_virtual", "io_read", "io_write" >>

\* a slip: the sleep left out
SleptNot == now
\* if interval is not None: time.sleep(interval): the clock when the call returns
Slept == IF interval # None THEN now + interval ELSE now

\* if interval is not None: time.sleep(interval); then "if plot:" is next
Sleep ==
    /\ pc = "sleep"
    /\ now' = Slept
    /\ pc' = IF plot THEN AppendOrder[1] ELSE "loop"
    /\ UNCHANGED << cfgVars, envVars, children_fail, fault, walked, sprocess, start_time,
                    current_time, pr_status, current_cpu, current_mem_real,
                    current_mem_virtual, current_io_read, current_io_write,
                    f, rows, log, killed, closes, finished_lines, chart,
                    raised, iter, exit_reason >>

\* a slip: the elapsed time taken again after the sleep
RecordedAfterSleep(field) ==
    CASE field = "times" -> now - start_time
      [] field = "cpu" -> current_cpu
      [] field = "mem_real" -> current_mem_real
      [] field = "mem_virtual" -> current_mem_virtual
      [] field = "io_read" -> current_io_read
      [] field = "io_write" -> current_io_write
\* the value log[field].append(...) stores
Recorded(field) ==
    CASE field = "times" -> current_time - start_time
      [] field = "cpu" -> current_cpu
      [] field = "mem_real" -> current_mem_real
      [] field = "mem_virtual" -> current_mem_virtual
      [] field = "io_read" -> current_io_read
      [] field = "io_write" -> current_io_write

\* log['times'].append(...) ... log['io_write'].append(...), one statement a step
Record ==
    /\ \E i \in 1..Len(AppendOrder) :
         /\ pc = AppendOrder[i]
         /\ log' = [log EXCEPT ![AppendOrder[i]] = Append(@, Recorded(AppendOrder[i]))]
         /\ pc' = IF i < Len(AppendOrder) THEN AppendOrder[i + 1] ELSE "loop"
    /\ UNCHANGED << cfgVars, envVars, now, children_fail, fault, walked, sprocess,
                    start_time, current_time, pr_status, current_cpu,
                    current_mem_real, current_mem_virtual, current_io_read,
                    current_io_write, f, rows, killed, closes, finished_lines,
                    chart, raised, iter, exit_reason >>

\* if logfile: f.close()
Close ==
    /\ pc = "close"
    /\ IF logfile
       THEN /\ f' = "closed"
            /\ closes' = closes + 1
       ELSE UNCHANGED << f, closes >>
    /\ pc' = "plot"
    /\ UNCHANGED << cfgVars, envVars, now, children_fail, fault, walked, sprocess,
                    start_time, current_time, pr_status, current_cpu,
                    current_mem_real, current_mem_virtual, current_io_read,
                    current_io_write, rows, log, killed, finished_lines,
                    chart, raised, iter, exit_reason >>

\* if plot: ... ax.plot, set_ylim(0., max(...) * 1.2), fig.savefig(plot)
Plot ==
    /\ pc = "plot"
    /\ IF plot
       THEN IF RenderRaises(log, max_cpu_scale, include_io)
            THEN /\ Raise("ValueError")
                 /\ UNCHANGED chart
            ELSE /\ chart' = << log >>
                 /\ pc' = "kill"
                 /\ UNCHANGED raised
       ELSE /\ pc' = "kill"
            /\ UNCHANGED << chart, raised >>
    /\ UNCHANGED << cfgVars, envVars, now, children_fail, fault, walked, sprocess,
                    start_time, current_time, pr_status, current_cpu,
                    current_mem_real, current_mem_virtual, current_io_read,
                    current_io_write, f, rows, log, killed, closes,
                    finished_lines, iter, exit_reason >>

\* if sprocess is not None: sprocess.kill()
Kill ==
    /\ pc = "kill"
    /\ killed' = IF sprocess # Unset THEN killed + 1 ELSE killed
    /\ pc' = "done"
    /\ UNCHANGED << cfgVars, envVars, now, children_fail, fault, walked, sprocess,
                    start_time, current_time, pr_status, current_cpu,
                    current_mem_real, current_mem_virtual, current_io_read,
                    current_io_write, f, rows, log, closes, finished_lines,
                    chart, raised, iter, exit_reason >>

\* the statements inside "try: ... except KeyboardInterrupt: pass"
TryPcs == {"loop", "status", "duration", "metrics", "io", "children", "write", "sleep"}
              \cup {AppendOrder[i] : i \in 1..Len(AppendOrder)}

\* the operator's Ctrl-C: KeyboardInterrupt is raised before the next statement
Interrupt ==
    /\ pc \notin {"done", "raised"}
    /\ IF pc \in TryPcs
       THEN /\ Break("interrupt")
            /\ UNCHANGED raised
       ELSE /\ Raise("KeyboardInterrupt")
            /\ UNCHANGED exit_reason
    /\ UNCHANGED << cfgVars, envVars, now, children_fail, fault, walked, sprocess,
                    start_time, current_time, pr_status, current_cpu,
                    current_mem_real, current_mem_virtual, current_io_read,
                    current_io_write, f, rows, log, killed, closes,
                    finished_lines, chart, iter >>

\* the statements of the program
Program ==
    \/ Attach \/ MonitorEnter \/ OpenLog \/ LoopTop \/ CheckStatus
    \/ CheckDuration \/ RootMetrics \/ IoCounters \/ Children \/ LogWrite
    \/ Sleep \/ Record \/ Close \/ Plot \/ Kill

Next == Program \/ Interrupt

Spec == Init /\ [][Next]_vars

\* one sample per run (the second iteration finds the duration exceeded), over every
\* process tree, both tables, every failure of the descendants' CPU and memory
\* queries, and at most one failing children()
InitAgg ==
    /\ is_command = FALSE
    /\ logfile = TRUE
    /\ plot = TRUE
    /\ duration = Milli
    /\ interval = None
    /\ include_children \in BOOLEAN
    /\ include_io = TRUE
    /\ max_cpu_scale = FALSE
    /\ ticks = {Milli}
    /\ fault_kinds = {"ok", "cpu", "mem"}
    /\ walk_faults = 1
    /\ tree \in AllTrees
    /\ procs \in {ExampleProcs, DistinctProcs}
    /\ InitRun

SpecAgg == InitAgg /\ [][Next]_vars

\* a clock that advances between any two readings; the interpreter keeps executing
\* the program's statements, the operator need never interrupt
InitLive ==
    /\ is_command \in BOOLEAN
    /\ logfile \in BOOLEAN
    /\ plot \in BOOLEAN
    /\ duration \in Durations
    /\ interval \in Intervals
    /\ include_children \in BOOLEAN
    /\ include_io = TRUE
    /\ max_cpu_scale = FALSE
    /\ ticks = {Milli}
    /\ fault_kinds = {"ok"}
    /\ walk_faults = 0
    /\ tree \in Trees(1)
    /\ procs = DistinctProcs
    /\ InitRun

\* one sample per run with include-children on, over every process tree and every
\* set of processes whose children() raises
InitWalk ==
    /\ is_command = FALSE
    /\ logfile = TRUE
    /\ plot = TRUE
    /\ duration = Milli
    /\ interval = None
    /\ include_children = TRUE
    /\ include_io = TRUE
    /\ max_cpu_scale = FALSE
    /\ ticks = {Milli}
    /\ fault_kinds = {"ok"}
    /\ walk_faults = MaxDesc + 1
    /\ tree \in AllTrees
    /\ procs = DistinctProcs
    /\ InitRun

SpecWalk == InitWalk /\ [][Next]_vars

SpecLive == InitLive /\ [][Next]_vars /\ WF_vars(Program)

(***************************************************************************)
(* Properties.                                                             *)
(***************************************************************************)
\* main() has finished, by returning or by an exception
Ended == pc \in {"done", "raised"}
\* the sampling loop is running
InLoop == pc \in TryPcs
\* the log file's rows below the header
DataRows == IF rows = << >> THEN << >> ELSE Tail(rows)
\* the lists of the Series
Fields == {AppendOrder[i] : i \in 1..Len(AppendOrder)}
Range(s) == {s[i] : i \in 1..Len(s)}

RECURSIVE SetSum(_, _)
SetSum(S, fn) ==
    IF S = {} THEN 0
    ELSE LET x == CHOOSE y \in S : TRUE IN fn[x] + SetSum(S \ {x}, fn)

cpuOf == [p \in DOMAIN tree |-> procs[p].cpu]
realOf == [p \in DOMAIN tree |-> ToMB(procs[p].rss)]
virtualOf == [p \in DOMAIN tree |-> ToMB(procs[p].vms)]

\* C1: once main() has finished after the monitoring of a spawned command ended
\* (and no interruption struck outside the loop), the spawned process has been killed
C1_SpawnedKilled ==
    (Ended /\ sprocess # Unset /\ exit_reason # Unset /\ raised # "KeyboardInterrupt")
        => killed >= 1

\* C2: a zombie or dead status ends the loop in the iteration that reads it, and the
\* loop that ended so in iteration k has written k-1 rows and recorded k-1 entries
\* in every list of the Series
C2_TerminalStatusStops ==
    /\ pr_status \in {STATUS_ZOMBIE, STATUS_DEAD} => exit_reason = "status"
    /\ exit_reason = "status" =>
         /\ logfile => Len(DataRows) = iter - 1
         /\ plot => \A fld \in Fields : Len(log[fld]) = iter - 1
\* C2 witness: the status turned terminal in the third iteration, two samples
C2_Witness ==
    /\ exit_reason = "status" /\ pr_status = STATUS_ZOMBIE /\ iter = 3
    /\ logfile /\ plot /\ Len(DataRows) = 2 /\ Len(log.times) = 2

C4_DurationBound ==
    /\ [](duration # None =>
            /\ \A i \in 1..Len(DataRows) : DataRows[i].t <= duration
            /\ \A i \in 1..Len(log.times) : log.times[i] <= duration)
    /\ ((InLoop /\ duration # None) ~> ~InLoop)
\* C4 witness: samples were taken, then the duration ended the loop
C4_Witness ==
    /\ duration = 2 * Milli /\ exit_reason = "duration"
    /\ Len(DataRows) = 2 /\ Len(log.times) = 2

\* C5: a failed query on the root handle inside the loop never leaves monitor() as
\* an exception
C5_RootFailureAbsorbed ==
    exit_reason \in {"gone", "query", "error"} => raised # "psutil.Error"

\* C6: with include-children, the sample sums the root and exactly the walked
\* descendants whose CPU and memory queries both answered
C6_FailedDescendantExcluded ==
    (pc = "write" /\ include_children) =>
        LET good == {c \in Range(all_children(Root, tree, children_fail)) :
                        fault[c] = "ok"}
        IN  /\ current_cpu = procs[Root].cpu + SetSum(good, cpuOf)
            /\ current_mem_real = ToMB(procs[Root].rss) + SetSum(good, realOf)
            /\ current_mem_virtual = ToMB(procs[Root].vms) + SetSum(good, virtualOf)

\* C7: with every query answering, the sample is the sum over the root and all of
\* its descendants when include-children is on, and the root's figures alone when off
C7_AggregateSums ==
    (pc = "write" /\ children_fail = {} /\ \A c \in DOMAIN fault : fault[c] = "ok") =>
        LET who == IF include_children THEN DOMAIN tree ELSE {Root}
        IN  /\ current_cpu = SetSum(who, cpuOf)
            /\ current_mem_real = SetSum(who, realOf)
            /\ current_mem_virtual = SetSum(who, virtualOf)
\* C7 witness: root at 10 % and two children at 15 % sum to 40 %
C7_Witness ==
    /\ pc = "write" /\ include_children /\ procs = ExampleProcs
    /\ tree = TreeOf(2, [c \in Desc(2) |-> Root])
    /\ children_fail = {} /\ \A c \in DOMAIN fault : fault[c] = "ok"
    /\ current_cpu = 40 * One

\* C8: after an interruption of the loop (and no second one), main() has closed the
\* log and rendered the chart from the Series
C8_InterruptStillOutputs ==
    (Ended /\ exit_reason = "interrupt" /\ raised # "KeyboardInterrupt") =>
        /\ logfile => f = "closed"
        /\ plot => chart = << log >>

\* C9: rendering an empty Series does not raise
C9_EmptySeriesRenders ==
    (plot /\ \A fld \in Fields : log[fld] = << >>) => raised # "ValueError"

\* C10: once monitor() is left without an interruption outside the loop, an opened
\* log file has been closed exactly once
C10_LogClosedOnce ==
    (pc \in {"kill", "done", "raised"} /\ f # Unset /\ raised # "KeyboardInterrupt") =>
        (f = "closed" /\ closes = 1)

\* C11: with an interval configured, the elapsed times of two consecutive samples,
\* in the Series and in the log, differ by at least the interval
C11_IntervalGap ==
    interval # None =>
        /\ \A i \in 1..(Len(log.times) - 1) : log.times[i + 1] - log.times[i] >= interval
        /\ \A i \in 1..(Len(DataRows) - 1) : DataRows[i + 1].t - DataRows[i].t >= interval
\* C11 witness: two samples exactly one interval apart, three rows
C11_Witness ==
    /\ interval = Milli /\ Len(log.times) = 2 /\ Len(DataRows) = 3
    /\ log.times[2] - log.times[1] = interval

\* C12: "Process finished" is printed at most once and exactly when the status
\* ended the loop; a terminal status ends the loop by the status condition whatever
\* the elapsed time is; the loop ends by the duration only after a non-terminal
\* status, and by a failed root query only after that and a duration not exceeded
C12_CheckOrder ==
    /\ finished_lines <= 1
    /\ finished_lines = 1 <=> exit_reason = "status"
    /\ pr_status \in {STATUS_ZOMBIE, STATUS_DEAD} =>
           (exit_reason = "status" /\ finished_lines = 1)
    /\ exit_reason = "duration" => pr_status = STATUS_RUNNING
    /\ exit_reason = "query" =>
           /\ pr_status = STATUS_RUNNING
           /\ ~(duration # None /\ current_time - start_time > duration)
\* C12 witness: the status is dead in an iteration whose elapsed time exceeds the
\* duration, and the status condition ended the loop
C12_Witness ==
    /\ pr_status = STATUS_DEAD /\ duration # None
    /\ current_time - start_time > duration
    /\ exit_reason = "status" /\ finished_lines = 1 /\ iter = 2

\* C13: when opening the log file fails, no command has been spawned
C13_OpenFailsBeforeSpawn == raised = "IOError" => sprocess = Unset

\* C14: every step leaves the recorded entries of every list of the Series in place
\* and appends at most one entry; the elapsed times recorded are non-negative and
\* each is strictly greater than the one before it
C14_AppendOnlyIncreasing ==
    /\ [][\A fld \in Fields :
             /\ Len(log'[fld]) \in {Len(log[fld]), Len(log[fld]) + 1}
             /\ SubSeq(log'[fld], 1, Len(log[fld])) = log[fld]]_vars
    /\ [](\A i \in 1..Len(log.times) :
             /\ log.times[i] >= 0
             /\ i > 1 => log.times[i - 1] < log.times[i])

\* the processes the walk can reach from the set S: the children of every process
\* of S whose children() answers, and so on
RECURSIVE Closure(_)
Closure(S) ==
    LET T == S \cup {c \in DOMAIN tree :
                        \E p \in S : p \notin children_fail /\ c \in Range(tree[p])}
    IN  IF T = S THEN S ELSE Closure(T)
\* the place of process x in the walk
Pos(x) == CHOOSE i \in 1..Len(walked) : walked[i] = x

\* C15: the walk lists each process reachable below the root exactly once (all the
\* descendants when no children() fails; a process whose children() fails is listed
\* and nothing below it), every process directly followed by the block of what is
\* reachable below it, and siblings in the order children() gave
C15_WalkPreOrder ==
    (pc = "write" /\ include_children) =>
        /\ Range(walked) = Closure({Root}) \ {Root}
        /\ Len(walked) = Cardinality(Range(walked))
        /\ children_fail = {} => Range(walked) = DOMAIN tree \ {Root}
        /\ \A x \in Range(walked) :
               {Pos(y) : y \in Closure({x})} = Pos(x)..(Pos(x) + Cardinality(Closure({x})) - 1)
        /\ \A p \in (Range(walked) \cup {Root}) \ children_fail :
               \A i, j \in 1..Len(tree[p]) :
                   i < j => Pos(tree[p][i]) < Pos(tree[p][j])
\* C15 witness: a chain below the first child whose children() fails, and a sibling
\* after it that is still walked
C15_Witness ==
    /\ pc = "write" /\ include_children
    /\ tree = TreeOf(3, (1 :> 0) @@ (2 :> 1) @@ (3 :> 0))
    /\ children_fail = {1}
    /\ walked = << 1, 3 >>

\* C16: the I/O figures a sample holds once the root's counters are read, and every
\* I/O figure the Series holds, are the root's own counters in MB, with or without
\* include-children and whatever tree, descendants' counters and failures
C16_IoRootOnly ==
    /\ pc \in ({"children", "write", "sleep"} \cup Fields) =>
           /\ current_io_read = ToMB(procs[Root].read_bytes)
           /\ current_io_write = ToMB(procs[Root].write_bytes)
    /\ \A i \in 1..Len(log.io_read) : log.io_read[i] = ToMB(procs[Root].read_bytes)
    /\ \A i \in 1..Len(log.io_write) : log.io_write[i] = ToMB(procs[Root].write_bytes)
\* C16 witness: a sample recorded with include-children over two children whose
\* counters differ from the root's and add to its CPU
C16_Witness ==
    /\ include_children /\ procs = DistinctProcs
    /\ tree = TreeOf(2, [c \in Desc(2) |-> Root])
    /\ children_fail = {} /\ \A c \in DOMAIN fault : fault[c] = "ok"
    /\ current_cpu = 7 * One + 3 * 3456
    /\ log.io_read = << ToMB(procs[Root].read_bytes) >>
    /\ log.io_write = << ToMB(procs[Root].write_bytes) >>

\* the lists of the Series a log row has a column for, with the column
Columns == {<< "times", "t" >>, << "cpu", "cpu" >>, << "mem_real", "mem_real" >>,
            << "mem_virtual", "mem_virtual" >>}

\* C17 as stated: with logging and charting on, in every state the data rows equal
\* each list's length or exceed it by exactly one, and the i-th entry of the Series
\* holds the same elapsed time, CPU and memory values as the i-th row
C17_RowsMatchSeries ==
    (logfile /\ plot) =>
        /\ \A fld \in Fields : Len(DataRows) - Len(log[fld]) \in {0, 1}
        /\ \A c \in Columns : \A i \in 1..Len(log[c[1]]) :
               DataRows[i][c[2]] = log[c[1]][i]
\* C17 amended: the same, the i-th row holding the i-th entry's values rounded to
\* three decimal places
C17_RowsTrackSeries ==
    (logfile /\ plot) =>
        /\ \A fld \in Fields : Len(DataRows) - Len(log[fld]) \in {0, 1}
        /\ \A c \in Columns : \A i \in 1..Len(log[c[1]]) :
               DataRows[i][c[2]] = Fmt3(log[c[1]][i])
\* C17 witness: the second row written and flushed, the sleep not yet over, and a
\* first sample whose row and Series entry differ below 1/1000
C17_Witness ==
    /\ logfile /\ plot /\ pc = "sleep"
    /\ Len(DataRows) = 2 /\ \A fld \in Fields : Len(log[fld]) = 1
    /\ log.times[1] = SubMilli /\ DataRows[1].t = 0
    /\ log.cpu[1] # DataRows[1].cpu

====
